---------------------------- MODULE Spec2Model ----------------------------
(***************************************************************************)
(* The Ferrero game environment of src/game.py (class Game): a peg-        *)
(* solitaire board of ROW x COL cells, the enumeration of the legal jumps, *)
(* the encoding of a jump as one integer, the transition function step     *)
(* and reset.                                                              *)
(*                                                                         *)
(* The board self.state['obs'] is a function from the positions <<i, j>>   *)
(* (0-based, as in the numpy array) to 0 or 1.  self.state is ONE dict     *)
(* that step hands back twice, so what the caller holds as "state" and as  *)
(* "next_state" is that dict as it is when step returns.                   *)
(***************************************************************************)
EXTENDS Integers, Sequences, FiniteSets

\* ------------------------------------------------------------------ bounds
\* The grids explored: every ROW x COL grid of at most MaxCells cells.
MaxCells == 15
\* Steps explored per episode on the default 6 x 8 grid (SpecDefault).
MaxPly == 4
\* Steps explored per episode when the caller passes any integer (SpecAny).
MaxAnyPly == 2
\* Integers tried on each side of the action space [0, ROW*COL*4) (SpecOut).
MaxOut == 4
\* The grids the driver loop is explored on: at most MaxUICells cells.
MaxUICells == 10
\* The episode budgets the driver loop is explored with: 0 .. MaxEpisodes.
MaxEpisodes == 2
\* Episodes a human is followed through (human moves never use up the budget).
MaxHumanDones == 2

\* ------------------------------------------------------- program constants
\* Game.__init__'s default arguments.
DefaultROW == 6
DefaultCOL == 8
\* The baseline of the terminal reward, reward = 8 - obs.sum().
RewardBase == 8
\* Game.__init__'s default episodes.
DefaultEpisodes == 50000

VARIABLES
    ROW,            \* self.ROW
    COL,            \* self.COL
    obs,            \* self.state['obs']: None, or the board
    legal_actions,  \* self.state['legal_actions']: None, or a list of ints
    last,           \* the last call on the Game object and what it returned
                    \* (nth: which step of its episode a step call was)
    ply,            \* step calls since the episode began (history)
    conv,           \* the last raw_to_std / std_to_raw call and its result
                    \* (raised: the call raised instead of returning)
    episodes,       \* self.episodes (UserInterface: self.game.episodes)
    running,        \* UserInterface.running
    human_mode,     \* UserInterface.human_mode
    AI_mode,        \* UserInterface.AI_mode
    select,         \* UserInterface.select
    issued,         \* who the last handler call called step for (history)
    dones,          \* steps of the driver that returned done (history)
    budget          \* the episodes the game was constructed with (history)

\* The fields of the UserInterface object, with their history.
uiVars == <<running, human_mode, AI_mode, select, issued, dones, budget>>

vars == <<ROW, COL, obs, legal_actions, last, ply, conv, episodes, uiVars>>

\* ------------------------------------------------------------------- data
\* Python's None for the board (a board is never the empty function) and for
\* the legal-action list (a list of encodings never holds a negative).
NoneObs == [p \in {} |-> 0]
NoneActions == <<-1>>

\* The positions of the grid, (row, col).
Pos == (0 .. ROW - 1) \X (0 .. COL - 1)

\* The directions of actions_list: 0 up, 1 down, 2 left, 3 right.
Direc == 0 .. 3

\* The std (encoded) actions, range(actions_num) for the grid in use.
StdActions == 0 .. ROW * COL * 4 - 1

RECURSIVE SumCells(_, _)
SumCells(b, k) ==
    IF k >= ROW * COL THEN 0
    ELSE b[<<k \div COL, k % COL>>] + SumCells(b, k + 1)

\* obs.sum()
Sum(b) == SumCells(b, 0)

\* The elements of a list.
Range(s) == {s[n] : n \in 1 .. Len(s)}

\* ------------------------------------------------------------- raw <-> std
raw_to_std(raw) ==
    LET x == raw.pos[1]
        y == raw.pos[2]
    IN  (x * COL + y) * 4 + raw.direc

\* std_to_raw dividing by the number of rows instead of the number of columns.
std_to_raw_ByRow(std_action) ==
    LET direc == std_action % 4
        tmp == std_action \div 4
    IN  [pos |-> <<tmp \div ROW, tmp % ROW>>, direc |-> direc]

std_to_raw(std_action) ==
    LET direc == std_action % 4
        tmp == std_action \div 4
    IN  [pos |-> <<tmp \div COL, tmp % COL>>, direc |-> direc]

\* ------------------------------------------------------- get_legal_actions
\* get_legal_actions without the test that the landing cell is empty.
CellActions_NoLandingTest(b, i, j) ==
    IF b[<<i, j>>] = 1
    THEN (IF 0 <= i - 2 /\ i - 2 < ROW
          THEN (IF b[<<i - 1, j>>] = 1 THEN <<(i * COL + j) * 4 + 0>> ELSE <<>>)
          ELSE <<>>)
      \o (IF 0 <= i + 2 /\ i + 2 < ROW
          THEN (IF b[<<i + 1, j>>] = 1 THEN <<(i * COL + j) * 4 + 1>> ELSE <<>>)
          ELSE <<>>)
      \o (IF 0 <= j - 2 /\ j - 2 < COL
          THEN (IF b[<<i, j - 1>>] = 1 THEN <<(i * COL + j) * 4 + 2>> ELSE <<>>)
          ELSE <<>>)
      \o (IF 0 <= j + 2 /\ j + 2 < COL
          THEN (IF b[<<i, j + 1>>] = 1 THEN <<(i * COL + j) * 4 + 3>> ELSE <<>>)
          ELSE <<>>)
    ELSE <<>>

\* The body of the double loop for cell (i, j): the actions appended, in order.
CellActions(b, i, j) ==
    IF b[<<i, j>>] = 1
    THEN (IF 0 <= i - 2 /\ i - 2 < ROW
          THEN (IF b[<<i - 1, j>>] = 1 /\ b[<<i - 2, j>>] = 0
                THEN <<(i * COL + j) * 4 + 0>> ELSE <<>>)
          ELSE <<>>)
      \o (IF 0 <= i + 2 /\ i + 2 < ROW
          THEN (IF b[<<i + 1, j>>] = 1 /\ b[<<i + 2, j>>] = 0
                THEN <<(i * COL + j) * 4 + 1>> ELSE <<>>)
          ELSE <<>>)
      \o (IF 0 <= j - 2 /\ j - 2 < COL
          THEN (IF b[<<i, j - 1>>] = 1 /\ b[<<i, j - 2>>] = 0
                THEN <<(i * COL + j) * 4 + 2>> ELSE <<>>)
          ELSE <<>>)
      \o (IF 0 <= j + 2 /\ j + 2 < COL
          THEN (IF b[<<i, j + 1>>] = 1 /\ b[<<i, j + 2>>] = 0
                THEN <<(i * COL + j) * 4 + 3>> ELSE <<>>)
          ELSE <<>>)
    ELSE <<>>

\* The columns of a row scanned from the last to the first.
RECURSIVE ScanCols_Backwards(_, _, _)
ScanCols_Backwards(b, i, j) ==
    IF j >= COL THEN <<>>
    ELSE ScanCols_Backwards(b, i, j + 1) \o CellActions(b, i, j)

\* for j in range(COL), from column j on.
RECURSIVE ScanCols(_, _, _)
ScanCols(b, i, j) ==
    IF j >= COL THEN <<>>
    ELSE CellActions(b, i, j) \o ScanCols(b, i, j + 1)

\* for i in range(ROW), from row i on.
RECURSIVE ScanRows(_, _)
ScanRows(b, i) ==
    IF i >= ROW THEN <<>>
    ELSE ScanCols(b, i, 0) \o ScanRows(b, i + 1)

get_legal_actions(b) == ScanRows(b, 0)

is_end(b) == get_legal_actions(b) = <<>>

\* ----------------------------------------------------------- get_legal_pos
\* get_legal_pos without the test that the selected cell is occupied.
get_legal_pos_AnyCell(b, pos) ==
    LET x == pos[1]
        y == pos[2]
    IN    (IF 0 <= x - 2 /\ x - 2 < ROW
           THEN (IF b[<<x - 1, y>>] = 1 /\ b[<<x - 2, y>>] = 0
                 THEN <<(<<x - 2, y>>)>> ELSE <<>>)
           ELSE <<>>)
       \o (IF 0 <= x + 2 /\ x + 2 < ROW
           THEN (IF b[<<x + 1, y>>] = 1 /\ b[<<x + 2, y>>] = 0
                 THEN <<(<<x + 2, y>>)>> ELSE <<>>)
           ELSE <<>>)
       \o (IF 0 <= y - 2 /\ y - 2 < COL
           THEN (IF b[<<x, y - 1>>] = 1 /\ b[<<x, y - 2>>] = 0
                 THEN <<(<<x, y - 2>>)>> ELSE <<>>)
           ELSE <<>>)
       \o (IF 0 <= y + 2 /\ y + 2 < COL
           THEN (IF b[<<x, y + 1>>] = 1 /\ b[<<x, y + 2>>] = 0
                 THEN <<(<<x, y + 2>>)>> ELSE <<>>)
           ELSE <<>>)

\* The list of positions a piece at pos can jump to.
get_legal_pos(b, pos) ==
    LET x == pos[1]
        y == pos[2]
    IN  IF b[<<x, y>>] = 1
        THEN (IF 0 <= x - 2 /\ x - 2 < ROW
              THEN (IF b[<<x - 1, y>>] = 1 /\ b[<<x - 2, y>>] = 0
                    THEN <<(<<x - 2, y>>)>> ELSE <<>>)
              ELSE <<>>)
          \o (IF 0 <= x + 2 /\ x + 2 < ROW
              THEN (IF b[<<x + 1, y>>] = 1 /\ b[<<x + 2, y>>] = 0
                    THEN <<(<<x + 2, y>>)>> ELSE <<>>)
              ELSE <<>>)
          \o (IF 0 <= y - 2 /\ y - 2 < COL
              THEN (IF b[<<x, y - 1>>] = 1 /\ b[<<x, y - 2>>] = 0
                    THEN <<(<<x, y - 2>>)>> ELSE <<>>)
              ELSE <<>>)
          \o (IF 0 <= y + 2 /\ y + 2 < COL
              THEN (IF b[<<x, y + 1>>] = 1 /\ b[<<x, y + 2>>] = 0
                    THEN <<(<<x, y + 2>>)>> ELSE <<>>)
              ELSE <<>>)
        ELSE <<>>

\* -------------------------------------------------------------------- reset
\* reset emptying the last cell instead of the origin.
ResetObs_LastCell == [p \in Pos |-> IF p = <<ROW - 1, COL - 1>> THEN 0 ELSE 1]

\* np.ones((ROW, COL)) with [0, 0] = 0.
ResetObs == [p \in Pos |-> IF p = <<0, 0>> THEN 0 ELSE 1]

\* What a call that is not step leaves in `last`.
NoStep(op) ==
    [op |-> op, action |-> -1, raised |-> FALSE,
     pre_obs |-> NoneObs, pre_legal |-> NoneActions, moved |-> NoneObs,
     state |-> [obs |-> NoneObs, legal_actions |-> NoneActions],
     next_state |-> [obs |-> NoneObs, legal_actions |-> NoneActions],
     reward |-> 0, done |-> FALSE, nth |-> 0]

reset ==
    /\ obs' = ResetObs
    /\ legal_actions' = get_legal_actions(ResetObs)
    /\ last' = NoStep("reset")
    /\ ply' = 0
    /\ UNCHANGED <<ROW, COL, conv, episodes, uiVars>>

\* --------------------------------------------------------------------- step
\* numpy's index on an axis of length n: a negative index counts from the
\* end, and an index outside -n .. n-1 raises IndexError (here: -1).
NpIndex(i, n) ==
    IF 0 <= i /\ i < n THEN i
    ELSE IF -n <= i /\ i < 0 THEN i + n
    ELSE -1

\* step that leaves the jumped-over piece on the board.
Writes_KeepJumped(raw) ==
    LET x == raw.pos[1]
        y == raw.pos[2]
    IN  CASE raw.direc = 0 -> <<(<<x, y, 0>>), <<x - 2, y, 1>>>>
          [] raw.direc = 1 -> <<(<<x, y, 0>>), <<x + 2, y, 1>>>>
          [] raw.direc = 2 -> <<(<<x, y, 0>>), <<x, y - 2, 1>>>>
          [] raw.direc = 3 -> <<(<<x, y, 0>>), <<x, y + 2, 1>>>>

\* step with left and right exchanged.
Writes_Mirrored(raw) ==
    LET x == raw.pos[1]
        y == raw.pos[2]
    IN  CASE raw.direc = 0 -> <<(<<x, y, 0>>), <<x - 1, y, 0>>, <<x - 2, y, 1>>>>
          [] raw.direc = 1 -> <<(<<x, y, 0>>), <<x + 1, y, 0>>, <<x + 2, y, 1>>>>
          [] raw.direc = 2 -> <<(<<x, y, 0>>), <<x, y + 1, 0>>, <<x, y + 2, 1>>>>
          [] raw.direc = 3 -> <<(<<x, y, 0>>), <<x, y - 1, 0>>, <<x, y - 2, 1>>>>

\* step that marks the jumped-over cell with 2 instead of emptying it.
Writes_MarkJumped(raw) ==
    LET x == raw.pos[1]
        y == raw.pos[2]
    IN  CASE raw.direc = 0 -> <<(<<x, y, 0>>), <<x - 1, y, 2>>, <<x - 2, y, 1>>>>
          [] raw.direc = 1 -> <<(<<x, y, 0>>), <<x + 1, y, 2>>, <<x + 2, y, 1>>>>
          [] raw.direc = 2 -> <<(<<x, y, 0>>), <<x, y - 1, 2>>, <<x, y - 2, 1>>>>
          [] raw.direc = 3 -> <<(<<x, y, 0>>), <<x, y + 1, 2>>, <<x, y + 2, 1>>>>

\* The three item assignments of step, in order: <<row, col, value>>.
Writes(raw) ==
    LET x == raw.pos[1]
        y == raw.pos[2]
    IN  CASE raw.direc = 0 -> <<(<<x, y, 0>>), <<x - 1, y, 0>>, <<x - 2, y, 1>>>>
          [] raw.direc = 1 -> <<(<<x, y, 0>>), <<x + 1, y, 0>>, <<x + 2, y, 1>>>>
          [] raw.direc = 2 -> <<(<<x, y, 0>>), <<x, y - 1, 0>>, <<x, y - 2, 1>>>>
          [] raw.direc = 3 -> <<(<<x, y, 0>>), <<x, y + 1, 0>>, <<x, y + 2, 1>>>>

\* The assignments ws applied to b from the n-th on, stopping at the first
\* that raises IndexError: the board then keeps the earlier assignments.
RECURSIVE ApplyWrites(_, _, _)
ApplyWrites(b, ws, n) ==
    IF n > Len(ws) THEN [obs |-> b, raised |-> FALSE]
    ELSE LET r == NpIndex(ws[n][1], ROW)
             c == NpIndex(ws[n][2], COL)
         IN  IF r = -1 \/ c = -1
             THEN [obs |-> b, raised |-> TRUE]
             ELSE ApplyWrites([b EXCEPT ![<<r, c>>] = ws[n][3]], ws, n + 1)

\* Lines 196-210: decode the action and write the three cells.
Move(b, std_action) == ApplyWrites(b, Writes(std_to_raw(std_action)), 1)

\* The reward computed after the reset instead of before it.
TerminalReward_AfterReset(b) == RewardBase - Sum(ResetObs)

\* reward = 8 - self.state['obs'].sum(), on the board the move produced.
TerminalReward(b) == RewardBase - Sum(b)

\* step that never resets.
BoardOnReturn_NoReset(b) == b

\* Lines 217-220: a board with no legal action is replaced by reset()'s.
BoardOnReturn(b) == IF is_end(b) THEN ResetObs ELSE b

\* step whose reset does not recompute the legal actions.
LegalOnReturn_NotRecomputed(b) == get_legal_actions(b)

\* Lines 213 and 220 (reset's line 63): the legal actions stored when step
\* returns are those of the board the move produced, or reset()'s.
LegalOnReturn(b) ==
    IF is_end(b) THEN get_legal_actions(ResetObs) ELSE get_legal_actions(b)

step(std_action) ==
    LET m == Move(obs, std_action)
        end == is_end(m.obs)
        new_obs == BoardOnReturn(m.obs)
        new_legal == LegalOnReturn(m.obs)
        \* state and next_state are both the dict self.state
        cur == [obs |-> new_obs, legal_actions |-> new_legal]
    IN  /\ obs # NoneObs
        /\ IF m.raised
           THEN \* IndexError leaves step: the earlier assignments stay, the
                \* legal actions are not recomputed, nothing is returned
                /\ obs' = m.obs
                /\ legal_actions' = legal_actions
                /\ ply' = ply + 1
                /\ last' = [NoStep("step") EXCEPT
                              !.action = std_action, !.raised = TRUE,
                              !.pre_obs = obs, !.pre_legal = legal_actions,
                              !.moved = m.obs, !.nth = ply + 1]
           ELSE /\ obs' = new_obs
                /\ legal_actions' = new_legal
                /\ ply' = IF end THEN 0 ELSE ply + 1
                /\ last' = [op |-> "step", action |-> std_action,
                            raised |-> FALSE,
                            pre_obs |-> obs, pre_legal |-> legal_actions,
                            moved |-> m.obs,
                            state |-> cur, next_state |-> cur,
                            reward |-> IF end THEN TerminalReward(m.obs) ELSE 0,
                            done |-> end, nth |-> ply + 1]
        /\ UNCHANGED <<ROW, COL, conv>>

\* ----------------------------------------------------------- specifications
NoConv == [op |-> "none", arg |-> 0, raw |-> [pos |-> <<0, 0>>, direc |-> 0],
           std |-> 0, raised |-> FALSE]

\* select = {'pos': None, 'legal_pos': [], 'action': None}; None is a
\* position, and a raw action, outside every grid.
NonePos == <<-1, -1>>
NoneRaw == [pos |-> NonePos, direc |-> -1]
NoSelect == [pos |-> NonePos, legal_pos |-> <<>>, action |-> NoneRaw]

\* Game(ROW, COL): the state after construction.
Constructed(r, c) ==
    /\ ROW = r
    /\ COL = c
    /\ obs = NoneObs
    /\ legal_actions = NoneActions
    /\ last = NoStep("init")
    /\ ply = 0
    /\ conv = NoConv
    /\ episodes = DefaultEpisodes
    /\ budget = DefaultEpisodes
    \* no UserInterface object
    /\ running = FALSE
    /\ human_mode = FALSE
    /\ AI_mode = FALSE
    /\ select = NoSelect
    /\ issued = "none"
    /\ dones = 0

Init ==
    \E r \in 1 .. MaxCells, c \in 1 .. MaxCells :
        r * c <= MaxCells /\ Constructed(r, c)

\* step on an action the caller took from the stored legal actions.
StepLegal ==
    /\ \E a \in Range(legal_actions) : a >= 0 /\ step(a)
    /\ UNCHANGED <<episodes, uiVars>>

Next == reset \/ StepLegal

Spec == Init /\ [][Next]_vars

\* ---------------------------------------------------- the other call sites
\* step on any integer of the action space, legal on the board or not.
StepAny ==
    /\ ply < MaxAnyPly
    /\ \E a \in StdActions : step(a)
    /\ UNCHANGED <<episodes, uiVars>>

NextAny == reset \/ StepAny

SpecAny == Init /\ [][NextAny]_vars

\* The game as UserInterface builds it, Game(): the 6 x 8 grid, explored to
\* MaxPly steps of an episode.
InitDefault == Constructed(DefaultROW, DefaultCOL)

StepBounded == ply < MaxPly /\ StepLegal

NextDefault == reset \/ StepBounded

SpecDefault == InitDefault /\ [][NextDefault]_vars

\* A call of raw_to_std on a position of the grid and a direction.
RawToStdCall ==
    /\ \E p \in Pos, d \in Direc :
          LET raw == [pos |-> p, direc |-> d]
          IN  conv' = [op |-> "raw_to_std", arg |-> 0, raw |-> raw,
                       std |-> raw_to_std(raw), raised |-> FALSE]
    /\ UNCHANGED <<ROW, COL, obs, legal_actions, last, ply, episodes, uiVars>>

\* A call of std_to_raw on an integer of the action space.
StdToRawCall ==
    /\ \E k \in StdActions :
          conv' = [op |-> "std_to_raw", arg |-> k, raw |-> std_to_raw(k),
                   std |-> k, raised |-> FALSE]
    /\ UNCHANGED <<ROW, COL, obs, legal_actions, last, ply, episodes, uiVars>>

NextCodec == RawToStdCall \/ StdToRawCall

SpecCodec == Init /\ [][NextCodec]_vars

\* The integers next to the action space, below 0 and from ROW*COL*4 on.
OutOfRange ==
    (-MaxOut .. -1) \cup (ROW * COL * 4 .. ROW * COL * 4 + MaxOut - 1)

\* A call of std_to_raw on an integer outside the action space: the
\* arithmetic of lines 172-175 goes through, nothing raises.
StdToRawOut ==
    /\ \E k \in OutOfRange :
          conv' = [op |-> "std_to_raw", arg |-> k, raw |-> std_to_raw(k),
                   std |-> k, raised |-> FALSE]
    /\ UNCHANGED <<ROW, COL, obs, legal_actions, last, ply, episodes, uiVars>>

\* step on an integer outside the action space.
StepOut ==
    /\ ply < MaxAnyPly
    /\ \E a \in OutOfRange : step(a)
    /\ UNCHANGED <<episodes, uiVars>>

NextOut == reset \/ StepOut \/ StdToRawOut

SpecOut == Init /\ [][NextOut]_vars

\* ---------------------------------------------------------- UserInterface
\* agent.step(state): a member of the legal actions it is shown; with none
\* to choose from, some integer of the action space.
AgentStep(legal) == IF legal # <<>> THEN Range(legal) ELSE StdActions

\* update without the is_end() test.
AIMayStep_Always(b) == TRUE

\* Line 327: the AI moves only on a board that is not at its end.
AIMayStep(b) == is_end(b) # TRUE

\* update counting every step as the end of an episode.
EpisodesAfter_EveryStep(e, done) == e - 1

\* Lines 334-335: if done: self.game.episodes -= 1
EpisodesAfter(e, done) == IF done THEN e - 1 ELSE e

\* Lines 296-306: the raw action of a click on (row, col), a legal position
\* of the selected piece pos.
ClickAction(pos, row, col) ==
    LET x == pos[1]
        y == pos[2]
    IN  CASE row = x - 2 /\ col = y -> [pos |-> pos, direc |-> 0]
          [] row = x + 2 /\ col = y -> [pos |-> pos, direc |-> 1]
          [] row = x /\ col = y - 2 -> [pos |-> pos, direc |-> 2]
          [] row = x /\ col = y + 2 -> [pos |-> pos, direc |-> 3]
          [] OTHER -> NoneRaw

\* processInput on a QUIT event.
Quit ==
    /\ running
    /\ running' = FALSE
    /\ issued' = "none"
    /\ UNCHANGED <<ROW, COL, obs, legal_actions, last, ply, conv, episodes,
                   human_mode, AI_mode, select, dones, budget>>

\* processInput on a left click on the cell (row, col), in human mode.
Click ==
    /\ running
    /\ human_mode
    /\ \E row \in 0 .. ROW - 1, col \in 0 .. COL - 1 :
          select' =
              IF <<row, col>> \in Range(select.legal_pos)
              THEN [select EXCEPT !.action = ClickAction(select.pos, row, col)]
              ELSE IF obs[<<row, col>>] = 1
              THEN [select EXCEPT !.pos = <<row, col>>,
                                  !.legal_pos = get_legal_pos(obs, <<row, col>>)]
              ELSE select
    /\ issued' = "none"
    /\ UNCHANGED <<ROW, COL, obs, legal_actions, last, ply, conv, episodes,
                   running, human_mode, AI_mode, dones, budget>>

\* update, called by run while running.  INTERVAL is 0, so the test of line
\* 316 never returns early.  An exception of step leaves update and the loop.
update ==
    /\ running
    /\ IF human_mode
       THEN IF select.action # NoneRaw
            THEN /\ dones < MaxHumanDones
                 /\ step(raw_to_std(select.action))
                 /\ select' = IF last'.raised THEN select ELSE NoSelect
                 /\ running' = ~last'.raised
                 /\ issued' = "human"
                 /\ dones' = IF last'.done THEN dones + 1 ELSE dones
                 /\ UNCHANGED <<episodes, human_mode, AI_mode, budget>>
            ELSE UNCHANGED vars
       ELSE IF AI_mode
       THEN IF episodes > 0
            THEN IF AIMayStep(obs)
                 THEN \* line 329 refreshes the stored legal actions, which
                      \* step stores again
                      /\ \E a \in AgentStep(get_legal_actions(obs)) : step(a)
                      /\ episodes' = IF last'.raised THEN episodes
                                     ELSE EpisodesAfter(episodes, last'.done)
                      /\ running' = ~last'.raised
                      /\ issued' = "ai"
                      /\ dones' = IF last'.done THEN dones + 1 ELSE dones
                      /\ UNCHANGED <<human_mode, AI_mode, select, budget>>
                 ELSE UNCHANGED vars
            ELSE /\ running' = FALSE
                 /\ issued' = "none"
                 /\ UNCHANGED <<ROW, COL, obs, legal_actions, last, ply, conv,
                                episodes, human_mode, AI_mode, select, dones,
                                budget>>
       ELSE UNCHANGED vars

\* UserInterface.__init__ on a game of r x c cells and e episodes (the code
\* builds Game(), 6 x 8 and 50000), with the mode switches hm and am (the
\* code sets False and True): the game is reset and the loop is running.
UIConstructed(r, c, e, hm, am) ==
    /\ ROW = r
    /\ COL = c
    /\ obs = ResetObs
    /\ legal_actions = get_legal_actions(ResetObs)
    /\ last = NoStep("reset")
    /\ ply = 0
    /\ conv = NoConv
    /\ episodes = e
    /\ budget = e
    /\ running = TRUE
    /\ human_mode = hm
    /\ AI_mode = am
    /\ select = NoSelect
    /\ issued = "none"
    /\ dones = 0

\* The driver with either setting of the mode switches and with the events
\* of the window.
InitUI ==
    \E r \in 1 .. MaxUICells, c \in 1 .. MaxUICells, e \in 0 .. MaxEpisodes,
       hm \in BOOLEAN, am \in BOOLEAN :
        r * c <= MaxUICells /\ UIConstructed(r, c, e, hm, am)

NextUI == Quit \/ Click \/ update

SpecUI == InitUI /\ [][NextUI]_vars

\* The driver as the code sets the switches (the AI plays) and with no event
\* of the window; run calls update again and again while running.
InitAI ==
    \E r \in 1 .. MaxUICells, c \in 1 .. MaxUICells, e \in 0 .. MaxEpisodes :
        r * c <= MaxUICells /\ UIConstructed(r, c, e, FALSE, TRUE)

NextAI == update

SpecAI == InitAI /\ [][NextAI]_vars /\ WF_vars(update)

\* ------------------------------------------------ the rule, as it is stated
\* The cell n steps from p in direction d (0 up, 1 down, 2 left, 3 right).
Ahead(p, d, n) ==
    CASE d = 0 -> <<p[1] - n, p[2]>>
      [] d = 1 -> <<p[1] + n, p[2]>>
      [] d = 2 -> <<p[1], p[2] - n>>
      [] d = 3 -> <<p[1], p[2] + n>>

\* A jump from p in direction d is legal on b.
RuleLegal(b, p, d) ==
    /\ b[p] = 1
    /\ Ahead(p, d, 2) \in Pos
    /\ b[Ahead(p, d, 1)] = 1
    /\ b[Ahead(p, d, 2)] = 0

Encoding(p, d) == (p[1] * COL + p[2]) * 4 + d

RuleSet(b) == {Encoding(x[1], x[2]) : x \in {y \in Pos \X Direc : RuleLegal(b, y[1], y[2])}}

\* The position and the direction an encoding stands for.
SourceOf(a) == <<(a \div 4) \div COL, (a \div 4) % COL>>
DirecOf(a) == a % 4

\* The number of occupied cells of b.
Occupied(b) == Cardinality({p \in Pos : b[p] = 1})

\* b0 and b1 differ in exactly the three cells of the jump a.
ThreeCells(b0, b1, a) ==
    LET src == SourceOf(a)
        mid == Ahead(src, DirecOf(a), 1)
        dst == Ahead(src, DirecOf(a), 2)
    IN  /\ b0[src] = 1 /\ b1[src] = 0
        /\ b0[mid] = 1 /\ b1[mid] = 0
        /\ b0[dst] = 0 /\ b1[dst] = 1
        /\ \A p \in Pos \ {src, mid, dst} : b1[p] = b0[p]

\* The board the jump a makes of b.
Jump(b, a) ==
    [b EXCEPT ![SourceOf(a)] = 0,
              ![Ahead(SourceOf(a), DirecOf(a), 1)] = 0,
              ![Ahead(SourceOf(a), DirecOf(a), 2)] = 1]

\* The initial configuration: only (0, 0) is empty.
IsInitial(b) ==
    /\ b # NoneObs
    /\ \A p \in Pos : b[p] = IF p = <<0, 0>> THEN 0 ELSE 1

\* step was called with a legal action and has returned.
Stepped == last.op = "step" /\ ~last.raised

\* ------------------------------------------------------------------ claims

\* C1: on every reachable board get_legal_actions() returns exactly the
\* encodings (row*COL+col)*4+d of the jumps the rule allows: source occupied,
\* landing cell inside the grid, jumped cell occupied, landing cell empty.
C1_LegalActionsExact ==
    obs # NoneObs => Range(get_legal_actions(obs)) = RuleSet(obs)

C1_Witness ==
    /\ obs # NoneObs
    /\ ply >= 2
    /\ Cardinality(RuleSet(obs)) >= 2
    /\ \E p \in Pos, d \in Direc : obs[p] = 1 /\ ~RuleLegal(obs, p, d)

\* C2 as claimed: the board held after step(a) returns differs from the board
\* before the call in exactly the three cells of the jump, for every legal a.
C2_BoardOnReturnThreeCells ==
    Stepped => ThreeCells(last.pre_obs, obs, last.action)

\* C2, amended: for every legal a step does not raise, and the board after
\* the move is applied differs from the board before the call in exactly
\* three cells (source occupied->empty, jumped occupied->empty, landing
\* empty->occupied); that board is the one held when step returns done =
\* false, and when step returns done = true the board held is the initial
\* configuration.
C2_MoveThreeCells ==
    last.op = "step" =>
        /\ ~last.raised
        /\ last.action \in RuleSet(last.pre_obs)
        /\ ThreeCells(last.pre_obs, last.moved, last.action)
        /\ ~last.done => obs = last.moved
        /\ last.done => IsInitial(obs)

C2_Witness ==
    /\ Stepped
    /\ ~last.done
    /\ ply >= 2
    /\ ThreeCells(last.pre_obs, obs, last.action)

\* C3 as claimed: every successful step(a), the last of an episode included,
\* leaves the board with one occupied cell fewer than before the call.
C3_CountOnReturnDecreases ==
    Stepped => Occupied(obs) = Occupied(last.pre_obs) - 1

\* C3, amended: every successful step(a) decreases the number of occupied
\* cells by exactly 1, comparing the board before the call with the board
\* after the move is applied; when step returns done = false that is the board
\* after the call returns, and when it returns done = true (the last step of
\* an episode) the board after the call returns has ROW*COL - 1 occupied cells.
C3_CountDecreases ==
    last.op = "step" =>
        /\ ~last.raised
        /\ Occupied(last.moved) = Occupied(last.pre_obs) - 1
        /\ ~last.done => Occupied(obs) = Occupied(last.pre_obs) - 1
        /\ last.done => Occupied(obs) = ROW * COL - 1

C3_Witness ==
    /\ Stepped
    /\ last.done
    /\ Occupied(last.moved) = Occupied(last.pre_obs) - 1
    /\ Occupied(obs) = ROW * COL - 1

\* C4: step on an encoded action of [0, ROW*COL*4) that is not legal on the
\* board leaves every cell and the stored legal actions as they were.
C4_IllegalStepRejected ==
    (last.op = "step" /\ last.action \notin RuleSet(last.pre_obs)) =>
        /\ obs = last.pre_obs
        /\ legal_actions = last.pre_legal

\* C5: when the board a legal step produces has no legal move and N occupied
\* cells, step returns reward = 8 - N and done = true and has reset the board
\* to the initial configuration; when it has a legal move, step returns
\* reward = 0 and done = false and the board is the produced one.
C5_RewardAndDone ==
    last.op = "step" =>
        LET post == Jump(last.pre_obs, last.action)
        IN  /\ ~last.raised
            /\ RuleSet(post) = {} =>
                  /\ last.reward = 8 - Occupied(post)
                  /\ last.done
                  /\ IsInitial(obs)
            /\ RuleSet(post) # {} =>
                  /\ last.reward = 0
                  /\ ~last.done
                  /\ obs = post
            /\ last.done <=> RuleSet(post) = {}

C5_Witness ==
    /\ Stepped
    /\ last.done
    /\ RuleSet(Jump(last.pre_obs, last.action)) = {}
    /\ last.reward = 8 - Occupied(Jump(last.pre_obs, last.action))
    /\ last.reward # 0
    /\ IsInitial(obs)

\* C6: step returns as state_before the board and legal actions as they were
\* before the move, and as state_after the board the move produced with its
\* legal actions, also on the step that ends an episode.
C6_BeforeAndAfter ==
    Stepped =>
        LET post == Jump(last.pre_obs, last.action)
        IN  /\ last.state.obs = last.pre_obs
            /\ Range(last.state.legal_actions) = RuleSet(last.pre_obs)
            /\ last.next_state.obs = post
            /\ Range(last.next_state.legal_actions) = RuleSet(post)

\* C7: raw_to_std and std_to_raw are inverses: raw_to_std(std_to_raw(k)) = k
\* for every k in [0, ROW*COL*4); std_to_raw(raw_to_std(p, d)) = (p, d) for
\* every position p of the grid and direction d, with raw_to_std(p, d) in
\* [0, ROW*COL*4) and different from raw_to_std of every other pair.
C7_Inverses ==
    /\ conv.op = "std_to_raw" =>
          /\ conv.raw.pos \in Pos
          /\ conv.raw.direc \in Direc
          /\ raw_to_std(conv.raw) = conv.arg
    /\ conv.op = "raw_to_std" =>
          /\ conv.std \in 0 .. ROW * COL * 4 - 1
          /\ std_to_raw(conv.std) = conv.raw
          /\ \A p \in Pos, d \in Direc :
                raw_to_std([pos |-> p, direc |-> d]) = conv.std
                    => (p = conv.raw.pos /\ d = conv.raw.direc)

C7_Witness ==
    /\ ROW # COL
    /\ conv.op = "raw_to_std"
    /\ conv.raw = [pos |-> <<ROW - 1, COL - 1>>, direc |-> 3]
    /\ conv.std = ROW * COL * 4 - 1
    /\ std_to_raw(conv.std) = conv.raw

\* C8: reset(), called in any state, leaves the board with exactly one empty
\* cell, at (0,0), and ROW*COL - 1 occupied cells, and the stored legal
\* actions are the legal moves of that board; a second reset() in a row
\* changes nothing.
C8_Reset ==
    [][last'.op = "reset" =>
          /\ {p \in Pos : obs'[p] = 0} = {<<0, 0>>}
          /\ Occupied(obs') = ROW * COL - 1
          /\ legal_actions' # NoneActions
          /\ Range(legal_actions') = RuleSet(obs')
          /\ last.op = "reset" => (obs' = obs /\ legal_actions' = legal_actions)
      ]_vars

C8_Witness ==
    /\ last.op = "reset"
    /\ ROW * COL >= 9
    /\ {p \in Pos : obs[p] = 0} = {<<0, 0>>}
    /\ Range(legal_actions) = RuleSet(obs)
    /\ RuleSet(obs) # {}

\* C9: after a step that reports done = true the board is the initial
\* configuration; and on a grid with ROW >= 3 or COL >= 3, after reset() and
\* after every return of step on a legal action, is_end() is false.
C9_InProgress ==
    /\ (last.op = "step" /\ last.done) => (~last.raised /\ IsInitial(obs))
    /\ ((ROW >= 3 \/ COL >= 3) /\ last.op \in {"reset", "step"}) => ~is_end(obs)

C9_Witness ==
    /\ Stepped
    /\ last.done
    /\ is_end(last.moved)
    /\ IsInitial(obs)
    /\ ~is_end(obs)

\* C10: on the 6 x 8 grid after reset(), raw_to_std((0,2), left) = 10 is a
\* legal action, and step on it leaves (0,0) occupied, (0,1) and (0,2) empty,
\* 46 occupied cells instead of 47, and returns reward 0 and done false.
C10_FirstJump ==
    /\ last.op = "reset" =>
          /\ ROW = 6 /\ COL = 8
          /\ Occupied(obs) = 47
          /\ raw_to_std([pos |-> <<0, 2>>, direc |-> 2]) = 10
          /\ 10 \in Range(get_legal_actions(obs))
          /\ 10 \in Range(legal_actions)
    /\ (last.op = "step" /\ last.action = 10 /\ Occupied(last.pre_obs) = 47) =>
          /\ ~last.raised
          /\ obs[<<0, 0>>] = 1
          /\ obs[<<0, 1>>] = 0
          /\ obs[<<0, 2>>] = 0
          /\ Occupied(obs) = 46
          /\ last.reward = 0
          /\ last.done = FALSE

C10_Witness ==
    /\ last.op = "step"
    /\ last.action = 10
    /\ Occupied(last.pre_obs) = 47
    /\ Occupied(obs) = 46
    /\ obs[<<0, 0>>] = 1

\* C12: in every state reached by reset() and step calls every cell of the
\* board holds 0 or 1, the board has ROW rows and COL columns, and ROW and
\* COL keep their construction-time values.
C12_CellsAndShape ==
    [][/\ ROW' = ROW
       /\ COL' = COL
       /\ obs' # NoneObs =>
             /\ DOMAIN obs' = (0 .. ROW - 1) \X (0 .. COL - 1)
             /\ \A p \in DOMAIN obs' : obs'[p] \in {0, 1}
      ]_vars

C12_Witness ==
    /\ last.op = "step"
    /\ ply >= 3
    /\ DOMAIN obs = Pos
    /\ \E p \in Pos : obs[p] = 0
    /\ \E p \in Pos : obs[p] = 1
    /\ \A p \in Pos : obs[p] \in {0, 1}

\* C13: std_to_raw rejects every integer outside [0, ROW*COL*4) instead of
\* returning a position and direction, and step on such an integer does not
\* touch the board.
C13_OutOfRangeRejected ==
    /\ (conv.op = "std_to_raw" /\ conv.arg \notin StdActions) => conv.raised
    /\ (last.op = "step" /\ last.action \notin StdActions) => obs = last.pre_obs

\* The landing cells of the legal actions whose source is p.
LandingsFrom(b, p) ==
    {a \in Range(get_legal_actions(b)) : SourceOf(a) = p}

\* C14: on every reachable board and for every position p of the grid,
\* get_legal_pos(p) returns exactly the landing cells of the actions of
\* get_legal_actions() whose source is p, one destination per action, and
\* nothing when p is empty.
C14_LegalPosConsistent ==
    obs # NoneObs =>
        \A p \in Pos :
            LET lp == get_legal_pos(obs, p)
                acts == LandingsFrom(obs, p)
            IN  /\ Range(lp) = {Ahead(p, DirecOf(a), 2) : a \in acts}
                /\ Len(lp) = Cardinality(acts)
                /\ obs[p] = 0 => lp = <<>>

C14_Witness ==
    /\ obs # NoneObs
    /\ ply >= 1
    /\ \E p \in Pos :
          /\ Len(get_legal_pos(obs, p)) >= 2
          /\ Cardinality(LandingsFrom(obs, p)) = Len(get_legal_pos(obs, p))
    /\ \E p \in Pos : obs[p] = 0 /\ get_legal_pos(obs, p) = <<>>

\* C15: the list get_legal_actions() returns is in row-major, then column,
\* then direction order: strictly increasing in the encoded value, hence
\* without duplicates, on every reachable board.
C15_Increasing ==
    obs # NoneObs =>
        LET s == get_legal_actions(obs)
        IN  /\ \A n \in 1 .. Len(s) - 1 : s[n] < s[n + 1]
            /\ \A n \in 1 .. Len(s) - 1 :
                  \/ SourceOf(s[n])[1] < SourceOf(s[n + 1])[1]
                  \/ /\ SourceOf(s[n])[1] = SourceOf(s[n + 1])[1]
                     /\ SourceOf(s[n])[2] < SourceOf(s[n + 1])[2]
                  \/ /\ SourceOf(s[n]) = SourceOf(s[n + 1])
                     /\ DirecOf(s[n]) < DirecOf(s[n + 1])
            /\ Cardinality(Range(s)) = Len(s)

C15_Witness ==
    /\ obs # NoneObs
    /\ Len(get_legal_actions(obs)) >= 3
    /\ \E n \in 1 .. Len(get_legal_actions(obs)) - 1 :
          /\ SourceOf(get_legal_actions(obs)[n])[1]
                = SourceOf(get_legal_actions(obs)[n + 1])[1]
          /\ get_legal_actions(obs)[n] < get_legal_actions(obs)[n + 1]

\* C18: after reset() and after every return of step on a legal action the
\* stored legal actions are get_legal_actions() of the stored board, also
\* right after the reset that step makes at the end of an episode.
C18_StoredLegalFresh ==
    last.op \in {"reset", "step"} =>
        /\ legal_actions # NoneActions
        /\ legal_actions = get_legal_actions(obs)
        /\ Range(legal_actions) = RuleSet(obs)

C18_Witness ==
    /\ Stepped
    /\ last.done
    /\ IsInitial(obs)
    /\ legal_actions # <<>>
    /\ legal_actions = get_legal_actions(obs)

\* What C19 says of a step call: it is at most the (ROW*COL-2)-th of its
\* episode, the (ROW*COL-2)-th returns done = true, the board it produces
\* keeps an occupied cell, and a terminal reward is at most 7.
StepEndsEpisodeInTime ==
    last.op = "step" =>
        /\ Occupied(last.moved) >= 1
        /\ last.nth <= ROW * COL - 2
        /\ last.nth = ROW * COL - 2 => last.done
        /\ ~last.done => ply = last.nth
        /\ last.done => (ply = 0 /\ last.reward <= 7)

\* C19 as claimed: under any sequence of legal actions from reset() every
\* episode ends within ROW*COL-2 steps, and the board always keeps at least
\* one occupied cell, so every terminal reward is at most 7.
C19_AlwaysAPiece ==
    /\ obs # NoneObs => Occupied(obs) >= 1
    /\ StepEndsEpisodeInTime

\* C19, amended: the same on every grid of at least two cells; on the 1 x 1
\* grid reset() leaves no occupied cell (and no step is legal).
C19_EpisodesEnd ==
    /\ (obs # NoneObs /\ ROW * COL >= 2) => Occupied(obs) >= 1
    /\ (obs # NoneObs /\ ROW * COL = 1) => last.op = "reset"
    /\ StepEndsEpisodeInTime

C19_Witness ==
    /\ Stepped
    /\ last.done
    /\ ROW * COL >= 6
    /\ last.nth = ROW * COL - 2
    /\ last.reward = 7

\* C11: the episode counter goes down by exactly one with every step call of
\* the driver that returns done = true, whether the step was issued for the
\* decision-maker or for a human-selected move, and no other handler call
\* changes it.
C11_CounterFollowsDone ==
    [][IF issued' # "none" /\ last'.done
       THEN episodes' = episodes - 1
       ELSE episodes' = episodes]_vars

\* C16: in the driver loop every step call happens on a board with a legal
\* move, in AI mode and for human-selected moves, also across the end of an
\* episode.
C16_NoStepOnTerminal ==
    issued # "none" =>
        /\ last.op = "step"
        /\ ~last.raised
        /\ ~is_end(last.pre_obs)
        /\ last.action \in RuleSet(last.pre_obs)

C16_Witness ==
    /\ issued = "ai"
    /\ last.op = "step"
    /\ last.pre_obs = ResetObs
    /\ dones >= 1
    /\ ~is_end(last.pre_obs)

\* The grid's initial board has a legal move.
InitialMove == RuleSet(ResetObs) # {}

\* C17: in AI mode with a budget of E >= 0 episodes, on a grid whose initial
\* board has a legal move and with a decision-maker that returns legal
\* actions, the driver eventually stops; when it has stopped, exactly E steps
\* have returned done = true; the counter is never negative; and once it is 0
\* no step is issued and the board does not change.
C17_DriverStops ==
    /\ <>(InitialMove => ~running)
    /\ [](~running => (dones = budget /\ episodes = 0))
    /\ [](episodes >= 0 /\ dones + episodes = budget)
    /\ [][episodes = 0 =>
            (obs' = obs /\ legal_actions' = legal_actions /\ last' = last
             /\ dones' = dones /\ episodes' = 0)]_vars

C17_Witness ==
    /\ InitialMove
    /\ ~running
    /\ budget >= 2
    /\ dones = budget
    /\ episodes = 0
    /\ last.op = "step"
    /\ last.done

=============================================================================
